---- MODULE Spec2Model ----
(***************************************************************************)
(* SmartBike (Raspberry Pi 5, German variant): the Streamlit script        *)
(* smartbike_pi5_streamlit.py as a state machine.                          *)
(*                                                                         *)
(* The script is re-run on every widget interaction.  Every run that ends  *)
(* with system_laeuft set starts a daemon thread running                   *)
(* verarbeite_kamerabild (the frame loop); every accepted voice alert      *)
(* starts a daemon thread running _spreche_synchron.  The session state    *)
(* (st.session_state) is shared by all of them.                            *)
(*                                                                         *)
(* Units: time in whole seconds, distances in centimetres, positions in    *)
(* pixels.  Identifiers keep the source's names, with ae/oe/ue/ss for the  *)
(* umlauts.  Display-only state (FPS, inference time, start_zeitpunkt,     *)
(* letztes_foto, the drawn frame) is left out.                             *)
(***************************************************************************)
EXTENDS Integers, Sequences, FiniteSets, TLC

\* ------------------------------------------------------------- bounds
MaxLoops == 2       \* frame-loop threads one session may start
MaxFrames == 2      \* frames read successfully, over all loops
MaxZeit == 1        \* clock ticks after the session's first instant
MaxTests == 1       \* test vocalizations unfinished at one time

\* -------------------------------------------------- program constants
Cooldown == 2                 \* time.time() - letzte_sprach_warnung > 2.0
GefahrenPunkteMax == 100      \* len(gefahren_punkte) > 100
VerlaufMax == 10              \* deque(maxlen=10)
Brennweite == 600             \* focal length in pixels
FrameSkipMin == 1             \* slider "Frame-Reduzierung" 1..5
FrameSkipMax == 5
bild_breite == 640            \* selectbox "Breite", default
gefahr_abstand == 150         \* slider default 1.5 m, in cm
geschwindigkeit_grenze == 150 \* slider default 150 px/s
RotSchwelle == 8              \* rot_anteil > 0.08, in percent
None == -1                    \* berechne_entfernung: return None
ZeroDivision == -2            \* berechne_entfernung: division by pixel_breite 0

Loops == 1..MaxLoops
Tester == 0                         \* stands for the speakers of TESTWARNUNG
Instanzen == Loops \cup {Tester}    \* DeutscherSprecher instances
Zeit0 == Cooldown + 1               \* time.time() is far beyond the cooldown

VARIABLES
    \* st.session_state
    system_laeuft, letzte_sprach_warnung, gefahren_punkte, objekt_verlaeufe,
    warnungen_gesamt, objekte_gesamt, frames_verarbeitet,
    \* widget values, the cached model and the speech driver of the session
    audio_aktiv, karte_anzeigen, auto_markierungen, frame_ueberspringen,
    modell_geladen, engine_ok,
    \* one frame-loop thread per started run (locals of verarbeite_kamerabild)
    pc, kamera, frame_nummer, breite_gebunden,
    warnungs_meldungen, rote_ampel_gefunden, fehler,
    \* vocalization threads per DeutscherSprecher instance
    wartend, imEngine,
    \* the wall clock
    jetzt,
    \* history: the loops that were running at a SYSTEM STOPPEN
    stopp_ausstehend,
    \* history of the test benches: the hazard points recorded, the texts
    \* handed to spreche_asynchron, the locals of the passes processed
    aufgezeichnet, gesprochen, detektion

sitzung == <<system_laeuft, letzte_sprach_warnung, gefahren_punkte,
             objekt_verlaeufe, warnungen_gesamt, objekte_gesamt,
             frames_verarbeitet>>
einstellungen == <<audio_aktiv, karte_anzeigen, auto_markierungen,
                   frame_ueberspringen, modell_geladen, engine_ok>>
lokal == <<pc, kamera, frame_nummer, breite_gebunden,
           warnungs_meldungen, rote_ampel_gefunden, fehler>>
stimmen == <<wartend, imEngine>>
beobachtung == <<aufgezeichnet, gesprochen, detektion>>
vars == <<sitzung, einstellungen, lokal, stimmen, jetzt, stopp_ausstehend,
          beobachtung>>

\* ------------------------------------------------ detection pipeline
REALE_OBJEKT_GROESSEN ==
    [k \in {"person", "pedestrian", "car", "vehicle", "bicycle", "bike",
            "motorcycle", "motorbike", "bus", "truck", "traffic light",
            "stop sign"} |->
        CASE k \in {"person", "pedestrian"} -> 50
          [] k \in {"car", "vehicle"} -> 180
          [] k \in {"bicycle", "bike"} -> 70
          [] k \in {"motorcycle", "motorbike"} -> 80
          [] k \in {"bus", "truck"} -> 250
          [] k = "traffic light" -> 30
          [] OTHER -> 40]

\* a list of important objects that also keeps pedestrians and dogs
WICHTIGE_OBJEKTE_UndWeitere ==
    {"person", "bicycle", "car", "motorcycle", "bus", "truck",
     "traffic light", "stop sign", "pedestrian", "dog"}

WICHTIGE_OBJEKTE ==
    {"person", "bicycle", "car", "motorcycle", "bus", "truck",
     "traffic light", "stop sign"}

\* round(a / b, 2) of a value in metres is a / b rounded to whole centimetres
Runde(a, b) == (2 * a + b) \div (2 * b)

berechne_entfernung(pixel_breite, objekt_typ) ==
    IF objekt_typ \notin DOMAIN REALE_OBJEKT_GROESSEN THEN None
    ELSE IF pixel_breite = 0 THEN ZeroDivision
    ELSE Runde(REALE_OBJEKT_GROESSEN[objekt_typ] * Brennweite, pixel_breite)

\* the crop of a box is summarised by its size and its share of red pixels
erkenne_rote_ampel(box) ==
    IF (box.x2 - box.x1) * (box.y2 - box.y1) = 0 THEN FALSE
    ELSE box.rot_anteil > RotSchwelle

\* the message text, by its wording and the values formatted into it; "" is
\* the empty string
erstelle_deutsche_warnung(objekt_name, position, entfernung, schnell) ==
    IF entfernung < gefahr_abstand
    THEN IF schnell
         THEN [art |-> "DRINGEND", objekt |-> objekt_name,
               position |-> position, entfernung |-> entfernung]
         ELSE [art |-> "ACHTUNG", objekt |-> objekt_name,
               position |-> position, entfernung |-> entfernung]
    ELSE IF schnell
         THEN [art |-> "HINWEIS", objekt |-> objekt_name,
               position |-> position, entfernung |-> None]
         ELSE [art |-> "", objekt |-> "", position |-> "", entfernung |-> None]

RoteAmpelWarnung ==
    [art |-> "ROTE AMPEL", objekt |-> "traffic light", position |-> "",
     entfernung |-> None]

Position(mitte_x, breite) ==
    IF mitte_x * 100 < breite * 33 THEN "Left"
    ELSE IF mitte_x * 100 > breite * 66 THEN "Right"
    ELSE "Center"

\* a list in place of the deque: nothing is ever dropped
DequeAppendOhneGrenze(verlauf, eintrag) == Append(verlauf, eintrag)

\* deque(maxlen=10).append
DequeAppend(verlauf, eintrag) ==
    IF Len(verlauf) >= VerlaufMax THEN Append(Tail(verlauf), eintrag)
    ELSE Append(verlauf, eintrag)

VerlaufSpeichern(verlaeufe, schluessel, eintrag) ==
    IF schluessel \in DOMAIN verlaeufe
    THEN [verlaeufe EXCEPT ![schluessel] = DequeAppend(@, eintrag)]
    ELSE verlaeufe @@ (schluessel :> <<eintrag>>)

\* a speed over the last two samples of the track
GeschwindigkeitWarnungLetzteZwei(verlauf) ==
    IF Len(verlauf) >= 2
    THEN LET erster == verlauf[Len(verlauf) - 1]
             letzter == verlauf[Len(verlauf)]
             zeit_diff == letzter.zeit - erster.zeit
             dx == letzter.mitte[1] - erster.mitte[1]
             dy == letzter.mitte[2] - erster.mitte[2]
         IN  zeit_diff > 0 /\
             dx * dx + dy * dy >
                 (geschwindigkeit_grenze * zeit_diff)
                     * (geschwindigkeit_grenze * zeit_diff)
    ELSE FALSE

\* distanz / zeit_diff > geschwindigkeit_grenze, without the square root
GeschwindigkeitWarnung(verlauf) ==
    IF Len(verlauf) >= 2
    THEN LET erster == verlauf[1]
             letzter == verlauf[Len(verlauf)]
             zeit_diff == letzter.zeit - erster.zeit
             dx == letzter.mitte[1] - erster.mitte[1]
             dy == letzter.mitte[2] - erster.mitte[2]
         IN  zeit_diff > 0 /\
             dx * dx + dy * dy >
                 (geschwindigkeit_grenze * zeit_diff)
                     * (geschwindigkeit_grenze * zeit_diff)
    ELSE FALSE

Farbe(entfernung, geschwindigkeit_warnung) ==
    IF entfernung # None /\ entfernung < gefahr_abstand THEN "rot"
    ELSE IF geschwindigkeit_warnung THEN "orange"
    ELSE "gruen"

\* a box loop with "if entfernung is not None" in place of the elif: a red
\* traffic light is also put to the distance and speed rules
VerarbeiteBoxOhneElif(box, zeit, z) ==
    IF box.klasse \notin WICHTIGE_OBJEKTE THEN z
    ELSE
    LET mitte_punkt == <<(box.x1 + box.x2) \div 2, (box.y1 + box.y2) \div 2>>
        position == Position(mitte_punkt[1], bild_breite)
        schluessel == <<box.klasse, position>>
        verlaeufe == VerlaufSpeichern(z.verlaeufe, schluessel,
                                      [zeit |-> zeit, mitte |-> mitte_punkt])
        schnell == GeschwindigkeitWarnung(verlaeufe[schluessel])
        entfernung == berechne_entfernung(box.x2 - box.x1, box.klasse)
        z1 == [z EXCEPT !.erkannte = @ + 1, !.verlaeufe = verlaeufe]
        z2 == IF box.klasse = "traffic light" /\ erkenne_rote_ampel(box)
              THEN [z1 EXCEPT !.rot = TRUE,
                              !.meldungen = Append(@, RoteAmpelWarnung)]
              ELSE z1
        warnung == erstelle_deutsche_warnung(
                       box.klasse, position, entfernung, schnell)
    IN  IF entfernung = ZeroDivision
        THEN [z1 EXCEPT !.fehler = "ZeroDivisionError"]
        ELSE IF entfernung # None /\ warnung.art # ""
        THEN [z2 EXCEPT !.meldungen = Append(@, warnung),
                        !.warnungen = @ + 1,
                        !.farben = Append(@, Farbe(entfernung, schnell))]
        ELSE [z2 EXCEPT !.farben = Append(@, Farbe(entfernung, schnell))]

\* one pass of the body of "for box in ergebnisse.boxes"; z carries the
\* session state and the locals the body updates
VerarbeiteBox(box, zeit, z) ==
    IF box.klasse \notin WICHTIGE_OBJEKTE THEN z
    ELSE
    LET mitte_punkt == <<(box.x1 + box.x2) \div 2, (box.y1 + box.y2) \div 2>>
        position == Position(mitte_punkt[1], bild_breite)
        schluessel == <<box.klasse, position>>
        verlaeufe == VerlaufSpeichern(z.verlaeufe, schluessel,
                                      [zeit |-> zeit, mitte |-> mitte_punkt])
        schnell == GeschwindigkeitWarnung(verlaeufe[schluessel])
        entfernung == berechne_entfernung(box.x2 - box.x1, box.klasse)
        z1 == [z EXCEPT !.erkannte = @ + 1, !.verlaeufe = verlaeufe]
    IN  IF entfernung = ZeroDivision
        THEN [z1 EXCEPT !.fehler = "ZeroDivisionError"]
        ELSE IF box.klasse = "traffic light"
        THEN IF erkenne_rote_ampel(box)
             THEN [z1 EXCEPT !.rot = TRUE,
                             !.meldungen = Append(@, RoteAmpelWarnung),
                             !.farben = Append(@, Farbe(entfernung, schnell))]
             ELSE [z1 EXCEPT !.farben = Append(@, Farbe(entfernung, schnell))]
        ELSE IF entfernung # None
        THEN LET warnung == erstelle_deutsche_warnung(
                                box.klasse, position, entfernung, schnell)
             IN  IF warnung.art # ""
                 THEN [z1 EXCEPT !.meldungen = Append(@, warnung),
                                 !.warnungen = @ + 1,
                                 !.farben = Append(@, Farbe(entfernung, schnell))]
                 ELSE [z1 EXCEPT !.farben = Append(@, Farbe(entfernung, schnell))]
        ELSE [z1 EXCEPT !.farben = Append(@, Farbe(entfernung, schnell))]

RECURSIVE VerarbeiteBoxen(_, _, _)
VerarbeiteBoxen(boxen, zeit, z) ==
    IF boxen = <<>> \/ z.fehler # "" THEN z
    ELSE VerarbeiteBoxen(Tail(boxen), zeit, VerarbeiteBox(Head(boxen), zeit, z))

\* what the detector may return for a frame: ergebnisse.boxes
Box(klasse, x1, x2, rot_anteil) ==
    [klasse |-> klasse, x1 |-> x1, y1 |-> 100, x2 |-> x2, y2 |-> 300,
     rot_anteil |-> rot_anteil]

Szenen ==
    { <<>>,
      <<Box("person", 200, 440, 0)>>,
      <<Box("traffic light", 300, 340, 50)>> }

\* ------------------------------------------------------ initial state
\* The session state as the first script run creates it.  The widget values,
\* the outcome of initialisiere_ki_modell and whether pyttsx3.init() works
\* are those of the session.
Init ==
    /\ system_laeuft = FALSE
    /\ letzte_sprach_warnung = 0
    /\ gefahren_punkte = <<>>
    /\ objekt_verlaeufe = <<>>
    /\ warnungen_gesamt = 0
    /\ objekte_gesamt = 0
    /\ frames_verarbeitet = 0
    /\ audio_aktiv \in BOOLEAN
    /\ karte_anzeigen \in BOOLEAN
    /\ auto_markierungen \in (IF karte_anzeigen THEN BOOLEAN ELSE {FALSE})
    /\ frame_ueberspringen \in {FrameSkipMin, FrameSkipMax}
    /\ modell_geladen \in BOOLEAN
    /\ engine_ok \in BOOLEAN
    /\ pc = [i \in Loops |-> "frei"]
    /\ kamera = [i \in Loops |-> "keine"]
    /\ frame_nummer = [i \in Loops |-> 0]
    /\ breite_gebunden = [i \in Loops |-> FALSE]
    /\ warnungs_meldungen = [i \in Loops |-> <<>>]
    /\ rote_ampel_gefunden = [i \in Loops |-> FALSE]
    /\ fehler = [i \in Loops |-> ""]
    /\ wartend = [s \in Instanzen |-> 0]
    /\ imEngine = [s \in Instanzen |-> 0]
    /\ jetzt = Zeit0
    /\ stopp_ausstehend = {}
    /\ aufgezeichnet = <<>>
    /\ gesprochen = <<>>
    /\ detektion = <<>>

\* ------------------------------------------------------- DeutscherSprecher
\* self.sperre is a lock of the instance; every TESTWARNUNG has an instance
\* and so a lock of its own
SperreFrei(s) == s = Tester \/ imEngine[s] = 0

\* a spreche_asynchron that calls _spreche_synchron itself: the caller takes
\* the sperre and is inside the engine when the call returns
spreche_im_aufrufer(s, text) ==
    IF ~engine_ok \/ text = "" THEN UNCHANGED stimmen
    ELSE /\ SperreFrei(s)
         /\ imEngine' = [imEngine EXCEPT ![s] = @ + 1]
         /\ UNCHANGED wartend

\* spreche_asynchron: returns at once; with a usable engine and a text it
\* starts a thread on _spreche_synchron
spreche_asynchron(s, text) ==
    IF ~engine_ok \/ text = "" THEN UNCHANGED stimmen
    ELSE /\ wartend' = [wartend EXCEPT ![s] = @ + 1]
         /\ UNCHANGED imEngine

\* _spreche_synchron: "with self.sperre" entered, engine.say / runAndWait
SprechenBeginnt(s) ==
    /\ wartend[s] > 0
    /\ SperreFrei(s)
    /\ wartend' = [wartend EXCEPT ![s] = @ - 1]
    /\ imEngine' = [imEngine EXCEPT ![s] = @ + 1]
    /\ UNCHANGED <<sitzung, einstellungen, lokal, jetzt, stopp_ausstehend>>

    /\ UNCHANGED beobachtung
\* _spreche_synchron: runAndWait returned (or raised), sperre released
SprechenEndet(s) ==
    /\ imEngine[s] > 0
    /\ imEngine' = [imEngine EXCEPT ![s] = @ - 1]
    /\ UNCHANGED <<sitzung, einstellungen, lokal, jetzt, wartend,
                   stopp_ausstehend>>

    /\ UNCHANGED beobachtung
\* ------------------------------------------------------- the frame loop
GeleseneFrames ==
    LET RECURSIVE Summe(_)
        Summe(k) == IF k = 0 THEN 0 ELSE frame_nummer[k] + Summe(k - 1)
    IN  Summe(MaxLoops)

\* an exception nobody catches ends the thread
Absturz(i, grund) ==
    /\ pc' = [pc EXCEPT ![i] = "abgestuerzt"]
    /\ fehler' = [fehler EXCEPT ![i] = grund]

\* starte_kamera and the speech module: lines 559-580
KameraStarten(i) ==
    /\ pc[i] = "start"
    /\ \E geoeffnet \in BOOLEAN :
        IF geoeffnet
        THEN /\ kamera' = [kamera EXCEPT ![i] = "offen"]
             /\ pc' = [pc EXCEPT ![i] = "schleife"]
        ELSE /\ kamera' = [kamera EXCEPT ![i] = "fehlgeschlagen"]
             /\ pc' = [pc EXCEPT ![i] = "kamera_fehler"]
    /\ UNCHANGED <<sitzung, einstellungen, stimmen, jetzt, stopp_ausstehend,
                   frame_nummer, breite_gebunden, warnungs_meldungen,
                   rote_ampel_gefunden, fehler>>

    /\ UNCHANGED beobachtung
\* "if kamera is None": st.error, system_laeuft = False, return
KameraFehler(i) ==
    /\ pc[i] = "kamera_fehler"
    /\ system_laeuft' = FALSE
    /\ pc' = [pc EXCEPT ![i] = "abgebrochen"]
    /\ fehler' = [fehler EXCEPT ![i] = "KAMERA NICHT VERFUEGBAR"]
    /\ UNCHANGED <<letzte_sprach_warnung, gefahren_punkte, objekt_verlaeufe,
                   warnungen_gesamt, objekte_gesamt, frames_verarbeitet,
                   einstellungen, stimmen, jetzt, stopp_ausstehend, kamera,
                   frame_nummer, breite_gebunden, warnungs_meldungen,
                   rote_ampel_gefunden>>

    /\ UNCHANGED beobachtung
\* lines 800-801: the condition of the debounced voice alert
Debounce(meldungen) ==
    audio_aktiv /\ meldungen # <<>> /\ jetzt - letzte_sprach_warnung > Cooldown

\* lines 600-801 for a frame that was read: frame counter, sampling,
\* inference, the boxes, the overlay, the debounce condition.  The overlay
\* reads breite and hoehe, which only an analysed frame binds.
FrameVerarbeiten(i) ==
    LET nummer == frame_nummer[i] + 1
        analysiere_frame == (nummer % frame_ueberspringen = 0)
    IN
    /\ frame_nummer' = [frame_nummer EXCEPT ![i] = nummer]
    /\ IF analysiere_frame /\ modell_geladen
       THEN \/ \* the detector raises
               /\ Absturz(i, "Detektor")
               /\ UNCHANGED <<objekt_verlaeufe, warnungen_gesamt,
                              objekte_gesamt, breite_gebunden,
                              warnungs_meldungen, rote_ampel_gefunden>>
            \/ \E boxen \in Szenen :
               LET z == VerarbeiteBoxen(boxen, jetzt,
                            [verlaeufe |-> objekt_verlaeufe,
                             meldungen |-> <<>>, rot |-> FALSE,
                             warnungen |-> warnungen_gesamt,
                             erkannte |-> 0, farben |-> <<>>,
                             fehler |-> ""])
               IN  /\ objekt_verlaeufe' = z.verlaeufe
                   /\ warnungen_gesamt' = z.warnungen
                   /\ warnungs_meldungen' =
                          [warnungs_meldungen EXCEPT ![i] = z.meldungen]
                   /\ rote_ampel_gefunden' =
                          [rote_ampel_gefunden EXCEPT ![i] = z.rot]
                   /\ breite_gebunden' = [breite_gebunden EXCEPT ![i] = TRUE]
                   /\ IF z.fehler # ""
                      THEN /\ Absturz(i, z.fehler)
                           /\ UNCHANGED objekte_gesamt
                      ELSE /\ objekte_gesamt' = z.erkannte
                           /\ pc' = [pc EXCEPT ![i] =
                                  IF Debounce(z.meldungen)
                                  THEN "sprechen" ELSE "gefahren"]
                           /\ UNCHANGED fehler
       ELSE /\ UNCHANGED <<objekt_verlaeufe, warnungen_gesamt, objekte_gesamt,
                           breite_gebunden, warnungs_meldungen,
                           rote_ampel_gefunden>>
            /\ IF breite_gebunden[i]
               THEN /\ pc' = [pc EXCEPT ![i] = "gefahren"]
                    /\ UNCHANGED fehler
               ELSE Absturz(i, "NameError breite")

\* a frame loop that counts the frame before it looks at erfolg
FrameLesenZaehltVorher(i) ==
    \E erfolg \in BOOLEAN :
        IF erfolg
        THEN /\ GeleseneFrames < MaxFrames
             /\ FrameVerarbeiten(i)
        ELSE /\ GeleseneFrames < MaxFrames
             /\ pc' = [pc EXCEPT ![i] = "backoff"]
             /\ frame_nummer' = [frame_nummer EXCEPT ![i] = @ + 1]
             /\ UNCHANGED <<objekt_verlaeufe, warnungen_gesamt, objekte_gesamt,
                            breite_gebunden, warnungs_meldungen,
                            rote_ampel_gefunden, fehler>>

\* "erfolg, frame = kamera.read()" and, for a frame, its processing;
\* "if not erfolg": st.warning, then the sleep of Backoff
FrameLesen(i) ==
    \E erfolg \in BOOLEAN :
        IF erfolg
        THEN /\ GeleseneFrames < MaxFrames
             /\ FrameVerarbeiten(i)
        ELSE /\ pc' = [pc EXCEPT ![i] = "backoff"]
             /\ UNCHANGED <<objekt_verlaeufe, warnungen_gesamt, objekte_gesamt,
                            frame_nummer, breite_gebunden, warnungs_meldungen,
                            rote_ampel_gefunden, fehler>>

\* "while st.session_state.system_laeuft"; after the loop kamera.release()
SchleifenKopf(i) ==
    /\ pc[i] = "schleife"
    /\ IF system_laeuft
       THEN /\ FrameLesen(i)
            /\ UNCHANGED kamera
       ELSE /\ pc' = [pc EXCEPT ![i] = "beendet"]
            /\ kamera' = [kamera EXCEPT ![i] = "freigegeben"]
            /\ UNCHANGED <<objekt_verlaeufe, warnungen_gesamt, objekte_gesamt,
                           frame_nummer, breite_gebunden, warnungs_meldungen,
                           rote_ampel_gefunden, fehler>>
    /\ stopp_ausstehend' = stopp_ausstehend \ {i}
    /\ UNCHANGED <<system_laeuft, letzte_sprach_warnung, gefahren_punkte,
                   frames_verarbeitet, einstellungen, stimmen, jetzt>>

    /\ UNCHANGED beobachtung
\* time.sleep(0.1), continue
Backoff(i) ==
    /\ pc[i] = "backoff"
    /\ pc' = [pc EXCEPT ![i] = "schleife"]
    /\ UNCHANGED <<sitzung, einstellungen, stimmen, jetzt, stopp_ausstehend,
                   kamera, frame_nummer, breite_gebunden, warnungs_meldungen,
                   rote_ampel_gefunden, fehler>>

    /\ UNCHANGED beobachtung
\* a choice by list order alone: the first message, red light or not
ZuSprechenErste(i) ==
    IF warnungs_meldungen[i][1].art = "ROTE AMPEL" THEN "ROT"
    ELSE warnungs_meldungen[i][1].art

\* lines 803-807: the alert to speak, "ROT" for the red-light sentence
ZuSprechen(i) ==
    IF rote_ampel_gefunden[i] THEN "ROT"
    ELSE warnungs_meldungen[i][1].art

\* a hand-over that starts the vocalization thread whatever became of
\* pyttsx3.init()
SprechenOhneEngine(i) ==
    /\ pc[i] = "sprechen"
    /\ wartend' = [wartend EXCEPT ![i] = @ + 1]
    /\ UNCHANGED imEngine
    /\ letzte_sprach_warnung' = jetzt
    /\ pc' = [pc EXCEPT ![i] = "gefahren"]
    /\ UNCHANGED <<system_laeuft, gefahren_punkte, objekt_verlaeufe,
                   warnungen_gesamt, objekte_gesamt, frames_verarbeitet,
                   einstellungen, jetzt, stopp_ausstehend, kamera,
                   frame_nummer, breite_gebunden, warnungs_meldungen,
                   rote_ampel_gefunden, fehler>>
    /\ UNCHANGED beobachtung

\* lines 803-810: the alert is chosen and handed over, the timestamp is set
Sprechen(i) ==
    /\ pc[i] = "sprechen"
    /\ spreche_asynchron(i, ZuSprechen(i))
    /\ letzte_sprach_warnung' = jetzt
    /\ pc' = [pc EXCEPT ![i] = "gefahren"]
    /\ UNCHANGED <<system_laeuft, gefahren_punkte, objekt_verlaeufe,
                   warnungen_gesamt, objekte_gesamt, frames_verarbeitet,
                   einstellungen, jetzt, stopp_ausstehend, kamera,
                   frame_nummer, breite_gebunden, warnungs_meldungen,
                   rote_ampel_gefunden, fehler>>

    /\ UNCHANGED beobachtung
\* a log that cuts at the wrong end: the oldest points stay
GefahrenPunktSpeichernVorn(punkte, punkt) ==
    LET neu == Append(punkte, punkt)
    IN  IF Len(neu) > GefahrenPunkteMax
        THEN SubSeq(neu, 1, GefahrenPunkteMax)
        ELSE neu

\* gefahren_punkte after lines 818-828
GefahrenPunktSpeichern(punkte, punkt) ==
    LET neu == Append(punkte, punkt)
    IN  IF Len(neu) > GefahrenPunkteMax
        THEN SubSeq(neu, Len(neu) - GefahrenPunkteMax + 1, Len(neu))
        ELSE neu

\* lines 812-866: hazard point, display, statistics, sleep.  The name
\* auto_markierungen is bound only when karte_anzeigen is set.  The lists of
\* the frame are dead from here on (lines 616-617 renew them) and are
\* written back empty at once.
GefahrenUndAnzeige(i) ==
    /\ pc[i] = "gefahren"
    /\ IF ~karte_anzeigen
       THEN /\ Absturz(i, "NameError auto_markierungen")
            /\ UNCHANGED <<gefahren_punkte, frames_verarbeitet>>
       ELSE /\ gefahren_punkte' =
                IF auto_markierungen /\ karte_anzeigen
                   /\ (rote_ampel_gefunden[i] \/ warnungs_meldungen[i] # <<>>)
                THEN GefahrenPunktSpeichern(gefahren_punkte,
                         [label |-> IF rote_ampel_gefunden[i]
                                    THEN "Rote Ampel" ELSE "Gefahrenzone",
                          ts |-> jetzt,
                          details |-> SubSeq(warnungs_meldungen[i], 1,
                              IF Len(warnungs_meldungen[i]) < 2
                              THEN Len(warnungs_meldungen[i]) ELSE 2)])
                ELSE gefahren_punkte
            /\ frames_verarbeitet' = frame_nummer[i]
            /\ pc' = [pc EXCEPT ![i] = "schleife"]
            /\ UNCHANGED fehler
    /\ warnungs_meldungen' = [warnungs_meldungen EXCEPT ![i] = <<>>]
    /\ rote_ampel_gefunden' = [rote_ampel_gefunden EXCEPT ![i] = FALSE]
    /\ UNCHANGED <<system_laeuft, letzte_sprach_warnung, objekt_verlaeufe,
                   warnungen_gesamt, objekte_gesamt, einstellungen, stimmen,
                   jetzt, stopp_ausstehend, kamera, frame_nummer,
                   breite_gebunden>>

    /\ UNCHANGED beobachtung
LoopSchritt(i) ==
    \/ KameraStarten(i)
    \/ KameraFehler(i)
    \/ SchleifenKopf(i)
    \/ Backoff(i)
    \/ Sprechen(i)
    \/ GefahrenUndAnzeige(i)

\* ------------------------------------------------------ the script runs
ImLoop == {"schleife", "backoff", "sprechen", "gefahren"}
Aktiv == {"start", "kamera_fehler"} \cup ImLoop

FreierLoop ==
    CHOOSE i \in Loops : pc[i] = "frei" /\ \A j \in Loops : pc[j] = "frei" => i <= j

\* lines 896-906, the end of every script run: a run that finds system_laeuft
\* set starts a new thread on verarbeite_kamerabild
HauptverarbeitungStarten ==
    IF system_laeuft'
    THEN /\ \E i \in Loops : pc[i] = "frei"
         /\ pc' = [pc EXCEPT ![FreierLoop] = "start"]
    ELSE UNCHANGED pc

\* button SYSTEM STARTEN: the flag is set, st.rerun() runs the script again
Starten ==
    /\ system_laeuft' = TRUE
    /\ HauptverarbeitungStarten
    /\ UNCHANGED <<letzte_sprach_warnung, gefahren_punkte, objekt_verlaeufe,
                   warnungen_gesamt, objekte_gesamt, frames_verarbeitet,
                   einstellungen, stimmen, jetzt, stopp_ausstehend, kamera,
                   frame_nummer, breite_gebunden, warnungs_meldungen,
                   rote_ampel_gefunden, fehler>>

    /\ UNCHANGED beobachtung
\* button SYSTEM STOPPEN: the flag is cleared, st.rerun() runs the script again
Stoppen ==
    /\ system_laeuft' = FALSE
    /\ HauptverarbeitungStarten
    /\ stopp_ausstehend' = {i \in Loops : pc[i] \in ImLoop}
    /\ UNCHANGED <<letzte_sprach_warnung, gefahren_punkte, objekt_verlaeufe,
                   warnungen_gesamt, objekte_gesamt, frames_verarbeitet,
                   einstellungen, stimmen, jetzt, kamera,
                   frame_nummer, breite_gebunden, warnungs_meldungen,
                   rote_ampel_gefunden, fehler>>

    /\ UNCHANGED beobachtung
\* button "Alle Daten zuruecksetzen", and the rest of that script run
Zuruecksetzen ==
    /\ gefahren_punkte' = <<>>
    /\ objekt_verlaeufe' = <<>>
    /\ warnungen_gesamt' = 0
    /\ UNCHANGED system_laeuft
    /\ HauptverarbeitungStarten
    /\ UNCHANGED <<letzte_sprach_warnung, objekte_gesamt, frames_verarbeitet,
                   einstellungen, stimmen, jetzt, stopp_ausstehend, kamera,
                   frame_nummer, breite_gebunden, warnungs_meldungen,
                   rote_ampel_gefunden, fehler>>

    /\ UNCHANGED beobachtung
\* a TESTWARNUNG that counts as a voice alert: it sets the timestamp
TestwarnungMitZeitstempel ==
    /\ wartend[Tester] + imEngine[Tester] < MaxTests
    /\ spreche_asynchron(Tester,
           "SmartBike Systemtest erfolgreich. Alle Systeme funktionieren.")
    /\ letzte_sprach_warnung' = jetzt
    /\ UNCHANGED system_laeuft
    /\ HauptverarbeitungStarten
    /\ UNCHANGED <<gefahren_punkte, objekt_verlaeufe,
                   warnungen_gesamt, objekte_gesamt, frames_verarbeitet,
                   einstellungen, jetzt, stopp_ausstehend, kamera,
                   frame_nummer, breite_gebunden, warnungs_meldungen,
                   rote_ampel_gefunden, fehler>>
    /\ UNCHANGED beobachtung

\* button TESTWARNUNG: a DeutscherSprecher of its own, and the rest of that run
Testwarnung ==
    /\ wartend[Tester] + imEngine[Tester] < MaxTests
    /\ spreche_asynchron(Tester,
           "SmartBike Systemtest erfolgreich. Alle Systeme funktionieren.")
    /\ UNCHANGED system_laeuft
    /\ HauptverarbeitungStarten
    /\ UNCHANGED <<letzte_sprach_warnung, gefahren_punkte, objekt_verlaeufe,
                   warnungen_gesamt, objekte_gesamt, frames_verarbeitet,
                   einstellungen, jetzt, stopp_ausstehend, kamera,
                   frame_nummer, breite_gebunden, warnungs_meldungen,
                   rote_ampel_gefunden, fehler>>

    /\ UNCHANGED beobachtung
\* any other interaction (a widget touched, FOTO AUFNEHMEN): one script run
SkriptLauf ==
    /\ UNCHANGED system_laeuft
    /\ HauptverarbeitungStarten
    /\ UNCHANGED <<letzte_sprach_warnung, gefahren_punkte, objekt_verlaeufe,
                   warnungen_gesamt, objekte_gesamt, frames_verarbeitet,
                   einstellungen, stimmen, jetzt, stopp_ausstehend, kamera,
                   frame_nummer, breite_gebunden, warnungs_meldungen,
                   rote_ampel_gefunden, fehler>>

    /\ UNCHANGED beobachtung
\* time.time() advances
Tick ==
    /\ jetzt < Zeit0 + MaxZeit
    /\ jetzt' = jetzt + 1
    /\ UNCHANGED <<sitzung, einstellungen, lokal, stimmen, stopp_ausstehend>>

    /\ UNCHANGED beobachtung
Next ==
    \/ Starten
    \/ Stoppen
    \/ Zuruecksetzen
    \/ Testwarnung
    \/ SkriptLauf
    \/ Tick
    \/ \E i \in Loops : LoopSchritt(i)
    \/ \E s \in Instanzen : SprechenBeginnt(s)
    \/ \E s \in Instanzen : SprechenEndet(s)

Spec == Init /\ [][Next]_vars

\* ---------------------------------------------------------- test benches
\* Specifications that run one part of the frame loop alone, one loop and no
\* other thread, on inputs the main specification is too small for.

\* the widgets at their defaults, model and speech driver available
EinstellungenStandard ==
    /\ audio_aktiv = TRUE
    /\ karte_anzeigen = TRUE
    /\ auto_markierungen = TRUE
    /\ frame_ueberspringen = FrameSkipMin
    /\ modell_geladen = TRUE
    /\ engine_ok = TRUE

\* loop 1 is inside its while loop, no other loop was started
EineSchleife ==
    /\ pc = [i \in Loops |-> IF i = 1 THEN "schleife" ELSE "frei"]
    /\ kamera = [i \in Loops |-> IF i = 1 THEN "offen" ELSE "keine"]
    /\ frame_nummer = [i \in Loops |-> 0]
    /\ breite_gebunden = [i \in Loops |-> FALSE]
    /\ warnungs_meldungen = [i \in Loops |-> <<>>]
    /\ rote_ampel_gefunden = [i \in Loops |-> FALSE]
    /\ fehler = [i \in Loops |-> ""]

StimmenRuhig ==
    /\ wartend = [s \in Instanzen |-> 0]
    /\ imEngine = [s \in Instanzen |-> 0]
    /\ stopp_ausstehend = {}

\* ---- the hazard log
MaxAufzeichnungen == 5     \* hazard points recorded by the loop of the bench
Vorlauf == {0, GefahrenPunkteMax - 2, GefahrenPunkteMax - 1, GefahrenPunkteMax}

\* the k-th hazard point an earlier loop of the session recorded
VorlaufPunkt(k) ==
    [label |-> "Gefahrenzone", ts |-> k,
     details |-> <<erstelle_deutsche_warnung("person", "Center", 100, FALSE)>>]

InitGefahrenLog ==
    /\ system_laeuft = TRUE
    /\ letzte_sprach_warnung = 0
    /\ objekt_verlaeufe = <<>>
    /\ warnungen_gesamt = 0
    /\ objekte_gesamt = 0
    /\ frames_verarbeitet = 0
    /\ EinstellungenStandard
    /\ EineSchleife
    /\ StimmenRuhig
    /\ gesprochen = <<>>
    /\ detektion = <<>>
    \* up to the cap nothing was cut: the log is what was appended
    /\ \E n \in Vorlauf :
        /\ gefahren_punkte = [k \in 1..n |-> VorlaufPunkt(k)]
        /\ aufgezeichnet = [k \in 1..n |-> VorlaufPunkt(k)]
        /\ jetzt = n + 1

\* lines 813-828 for a frame with a warning or a red light, one second after
\* the last
PunktAufzeichnen ==
    /\ frame_nummer[1] < MaxAufzeichnungen
    /\ \E rot \in BOOLEAN :
        LET punkt == [label |-> IF rot THEN "Rote Ampel" ELSE "Gefahrenzone",
                      ts |-> jetzt,
                      details |-> IF rot THEN <<RoteAmpelWarnung>>
                                  ELSE <<erstelle_deutsche_warnung(
                                            "car", "Left", 100, FALSE)>>]
        IN  /\ gefahren_punkte' = GefahrenPunktSpeichern(gefahren_punkte, punkt)
            /\ aufgezeichnet' = Append(aufgezeichnet, punkt)
    /\ frame_nummer' = [frame_nummer EXCEPT ![1] = @ + 1]
    /\ jetzt' = jetzt + 1
    /\ UNCHANGED <<system_laeuft, letzte_sprach_warnung, objekt_verlaeufe,
                   warnungen_gesamt, objekte_gesamt, frames_verarbeitet,
                   einstellungen, stimmen, stopp_ausstehend, pc, kamera,
                   breite_gebunden, warnungs_meldungen, rote_ampel_gefunden,
                   fehler, gesprochen, detektion>>

SpecGefahrenLog == InitGefahrenLog /\ [][PunktAufzeichnen]_vars

\* ---- the boxes of a frame
MaxBoxen == 3         \* boxes the bench processes
MaxBankFrames == 3    \* frames of the bench, one second apart

Rechteck(klasse, x1, y1, x2, y2, rot_anteil) ==
    [klasse |-> klasse, x1 |-> x1, y1 |-> y1, x2 |-> x2, y2 |-> y2,
     rot_anteil |-> rot_anteil]

\* boxes the detector may report: near and far, in the middle third, 300
\* pixels apart in height, a red and a dark traffic light, a class that is
\* not kept
Kandidaten ==
    { Rechteck("person", 200, 100, 440, 300, 0),          \* 1.25 m
      Rechteck("person", 200, 400, 440, 600, 0),          \* 1.25 m, lower
      Rechteck("person", 270, 100, 370, 300, 0),          \* 3 m
      Rechteck("traffic light", 255, 100, 385, 300, 50),  \* 1.38 m, red
      Rechteck("traffic light", 255, 400, 385, 600, RotSchwelle), \* dark
      Rechteck("traffic light", 300, 100, 340, 300, 50),  \* 4.5 m, red
      Rechteck("traffic light", 300, 400, 340, 600, 0),   \* 4.5 m, dark
      Rechteck("dog", 200, 100, 440, 300, 0) }

\* the track of ("person", "Center") after n detections of earlier frames,
\* all at one place, a second apart
VorlaufVerlauf(n) ==
    IF n = 0 THEN <<>>
    ELSE <<"person", "Center">> :>
             [k \in 1..n |-> [zeit |-> Zeit0 - 1 - n + k, mitte |-> <<320, 200>>]]

InitBoxen ==
    /\ system_laeuft = TRUE
    /\ letzte_sprach_warnung = 0
    /\ gefahren_punkte = <<>>
    /\ \E n \in {0, VerlaufMax - 1, VerlaufMax} :
           objekt_verlaeufe = VorlaufVerlauf(n)
    /\ warnungen_gesamt = 0
    /\ objekte_gesamt = 0
    /\ frames_verarbeitet = 0
    /\ EinstellungenStandard
    /\ pc = [i \in Loops |-> IF i = 1 THEN "schleife" ELSE "frei"]
    /\ kamera = [i \in Loops |-> IF i = 1 THEN "offen" ELSE "keine"]
    /\ frame_nummer = [i \in Loops |-> IF i = 1 THEN 1 ELSE 0]
    /\ breite_gebunden = [i \in Loops |-> i = 1]
    /\ warnungs_meldungen = [i \in Loops |-> <<>>]
    /\ rote_ampel_gefunden = [i \in Loops |-> FALSE]
    /\ fehler = [i \in Loops |-> ""]
    /\ StimmenRuhig
    /\ jetzt = Zeit0
    /\ aufgezeichnet = <<>>
    /\ gesprochen = <<>>
    /\ detektion = <<>>

\* one pass of "for box in ergebnisse.boxes" in the frame loop 1 is in; the
\* locals of the pass are noted in detektion
BoxVerarbeiten ==
    /\ Len(detektion) < MaxBoxen
    /\ \E box \in Kandidaten :
        LET z0 == [verlaeufe |-> objekt_verlaeufe,
                   meldungen |-> warnungs_meldungen[1],
                   rot |-> rote_ampel_gefunden[1],
                   warnungen |-> warnungen_gesamt,
                   erkannte |-> objekte_gesamt, farben |-> <<>>,
                   fehler |-> ""]
            z == VerarbeiteBox(box, jetzt, z0)
        IN  /\ objekt_verlaeufe' = z.verlaeufe
            /\ warnungen_gesamt' = z.warnungen
            /\ objekte_gesamt' = z.erkannte
            /\ warnungs_meldungen' = [warnungs_meldungen EXCEPT ![1] = z.meldungen]
            /\ rote_ampel_gefunden' = [rote_ampel_gefunden EXCEPT ![1] = z.rot]
            /\ detektion' = Append(detektion,
                   [box |-> box, zeit |-> jetzt,
                    behalten |-> z.erkannte > z0.erkannte,
                    verlaeufe |-> z.verlaeufe,
                    meldungen |-> SubSeq(z.meldungen, Len(z0.meldungen) + 1,
                                         Len(z.meldungen)),
                    warnungen |-> z.warnungen - z0.warnungen,
                    farben |-> z.farben])
    /\ UNCHANGED <<system_laeuft, letzte_sprach_warnung, gefahren_punkte,
                   frames_verarbeitet, einstellungen, stimmen, jetzt,
                   stopp_ausstehend, pc, kamera, frame_nummer,
                   breite_gebunden, fehler, aufgezeichnet, gesprochen>>

\* the next frame, a second later: lines 613-617 and 642
NaechsterFrame ==
    /\ frame_nummer[1] < MaxBankFrames
    /\ frame_nummer' = [frame_nummer EXCEPT ![1] = @ + 1]
    /\ warnungs_meldungen' = [warnungs_meldungen EXCEPT ![1] = <<>>]
    /\ rote_ampel_gefunden' = [rote_ampel_gefunden EXCEPT ![1] = FALSE]
    /\ objekte_gesamt' = 0
    /\ jetzt' = jetzt + 1
    /\ UNCHANGED <<system_laeuft, letzte_sprach_warnung, gefahren_punkte,
                   objekt_verlaeufe, warnungen_gesamt, frames_verarbeitet,
                   einstellungen, stimmen, stopp_ausstehend, pc, kamera,
                   breite_gebunden, fehler, beobachtung>>

NextBoxen == BoxVerarbeiten \/ NaechsterFrame

SpecBoxen == InitBoxen /\ [][NextBoxen]_vars

\* ---- debounce and hazard point of a frame
MaxWarten == 4        \* seconds the bench lets pass

\* frames with no box, with a far person, with a far and a near person 300
\* pixels lower, and with a near person before and after a red traffic light
BankSzenen ==
    { <<>>,
      <<Rechteck("person", 270, 100, 370, 300, 0)>>,
      <<Rechteck("person", 270, 400, 370, 600, 0),
        Rechteck("person", 200, 400, 440, 600, 0)>>,
      <<Rechteck("person", 200, 100, 440, 300, 0),
        Rechteck("traffic light", 300, 100, 340, 300, 50)>>,
      <<Rechteck("traffic light", 300, 100, 340, 300, 50),
        Rechteck("person", 200, 100, 440, 300, 0)>> }

InitDebounce ==
    /\ system_laeuft = TRUE
    /\ letzte_sprach_warnung = 0
    /\ gefahren_punkte = <<>>
    /\ objekt_verlaeufe = <<>>
    /\ warnungen_gesamt = 0
    /\ objekte_gesamt = 0
    /\ frames_verarbeitet = 0
    /\ audio_aktiv \in BOOLEAN
    /\ karte_anzeigen \in BOOLEAN
    /\ auto_markierungen \in (IF karte_anzeigen THEN BOOLEAN ELSE {FALSE})
    /\ frame_ueberspringen = FrameSkipMin
    /\ modell_geladen = TRUE
    /\ engine_ok = TRUE
    /\ EineSchleife
    /\ StimmenRuhig
    /\ jetzt = Zeit0
    /\ aufgezeichnet = <<>>
    /\ gesprochen = <<>>
    /\ detektion = <<>>

\* lines 593-801 for a frame that is read and analysed without an exception
BankFrame ==
    /\ pc[1] = "schleife"
    /\ frame_nummer[1] < MaxBankFrames
    /\ \E boxen \in BankSzenen :
        LET z == VerarbeiteBoxen(boxen, jetzt,
                     [verlaeufe |-> objekt_verlaeufe, meldungen |-> <<>>,
                      rot |-> FALSE, warnungen |-> warnungen_gesamt,
                      erkannte |-> 0, farben |-> <<>>, fehler |-> ""])
        IN  /\ objekt_verlaeufe' = z.verlaeufe
            /\ warnungen_gesamt' = z.warnungen
            /\ objekte_gesamt' = z.erkannte
            /\ warnungs_meldungen' = [warnungs_meldungen EXCEPT ![1] = z.meldungen]
            /\ rote_ampel_gefunden' = [rote_ampel_gefunden EXCEPT ![1] = z.rot]
            /\ pc' = [pc EXCEPT ![1] = IF Debounce(z.meldungen)
                                       THEN "sprechen" ELSE "gefahren"]
    /\ frame_nummer' = [frame_nummer EXCEPT ![1] = @ + 1]
    /\ breite_gebunden' = [breite_gebunden EXCEPT ![1] = TRUE]
    /\ UNCHANGED <<system_laeuft, letzte_sprach_warnung, gefahren_punkte,
                   frames_verarbeitet, einstellungen, stimmen, jetzt,
                   stopp_ausstehend, kamera, fehler, beobachtung>>

\* lines 803-810; the text handed over is noted with the frame it is from
BankSprechen ==
    /\ pc[1] = "sprechen"
    /\ spreche_asynchron(1, ZuSprechen(1))
    /\ gesprochen' = Append(gesprochen,
           [text |-> ZuSprechen(1), frame |-> frame_nummer[1],
            meldungen |-> warnungs_meldungen[1], zeit |-> jetzt])
    /\ letzte_sprach_warnung' = jetzt
    /\ pc' = [pc EXCEPT ![1] = "gefahren"]
    /\ UNCHANGED <<system_laeuft, gefahren_punkte, objekt_verlaeufe,
                   warnungen_gesamt, objekte_gesamt, frames_verarbeitet,
                   einstellungen, jetzt, stopp_ausstehend, kamera,
                   frame_nummer, breite_gebunden, warnungs_meldungen,
                   rote_ampel_gefunden, fehler, aufgezeichnet, detektion>>

\* a hazard step that does not look at the auto-marking switch
BankGefahrenOhneSchalter ==
    /\ pc[1] = "gefahren"
    /\ IF ~karte_anzeigen
       THEN /\ Absturz(1, "NameError auto_markierungen")
            /\ UNCHANGED <<gefahren_punkte, frames_verarbeitet, aufgezeichnet>>
       ELSE /\ IF rote_ampel_gefunden[1] \/ warnungs_meldungen[1] # <<>>
               THEN LET punkt ==
                            [label |-> IF rote_ampel_gefunden[1]
                                       THEN "Rote Ampel" ELSE "Gefahrenzone",
                             ts |-> jetzt,
                             details |-> SubSeq(warnungs_meldungen[1], 1,
                                 IF Len(warnungs_meldungen[1]) < 2
                                 THEN Len(warnungs_meldungen[1]) ELSE 2)]
                    IN  /\ gefahren_punkte' =
                               GefahrenPunktSpeichern(gefahren_punkte, punkt)
                        /\ aufgezeichnet' = Append(aufgezeichnet, punkt)
               ELSE UNCHANGED <<gefahren_punkte, aufgezeichnet>>
            /\ frames_verarbeitet' = frame_nummer[1]
            /\ pc' = [pc EXCEPT ![1] = "schleife"]
            /\ UNCHANGED fehler
    /\ UNCHANGED <<system_laeuft, letzte_sprach_warnung, objekt_verlaeufe,
                   warnungen_gesamt, objekte_gesamt, einstellungen, stimmen,
                   jetzt, stopp_ausstehend, kamera, frame_nummer,
                   breite_gebunden, warnungs_meldungen, rote_ampel_gefunden,
                   gesprochen, detektion>>

\* lines 812-866; the point appended is noted
BankGefahren ==
    /\ pc[1] = "gefahren"
    /\ IF ~karte_anzeigen
       THEN /\ Absturz(1, "NameError auto_markierungen")
            /\ UNCHANGED <<gefahren_punkte, frames_verarbeitet, aufgezeichnet>>
       ELSE /\ IF auto_markierungen /\ karte_anzeigen
                  /\ (rote_ampel_gefunden[1] \/ warnungs_meldungen[1] # <<>>)
               THEN LET punkt ==
                            [label |-> IF rote_ampel_gefunden[1]
                                       THEN "Rote Ampel" ELSE "Gefahrenzone",
                             ts |-> jetzt,
                             details |-> SubSeq(warnungs_meldungen[1], 1,
                                 IF Len(warnungs_meldungen[1]) < 2
                                 THEN Len(warnungs_meldungen[1]) ELSE 2)]
                    IN  /\ gefahren_punkte' =
                               GefahrenPunktSpeichern(gefahren_punkte, punkt)
                        /\ aufgezeichnet' = Append(aufgezeichnet, punkt)
               ELSE UNCHANGED <<gefahren_punkte, aufgezeichnet>>
            /\ frames_verarbeitet' = frame_nummer[1]
            /\ pc' = [pc EXCEPT ![1] = "schleife"]
            /\ UNCHANGED fehler
    /\ UNCHANGED <<system_laeuft, letzte_sprach_warnung, objekt_verlaeufe,
                   warnungen_gesamt, objekte_gesamt, einstellungen, stimmen,
                   jetzt, stopp_ausstehend, kamera, frame_nummer,
                   breite_gebunden, warnungs_meldungen, rote_ampel_gefunden,
                   gesprochen, detektion>>

\* a second passes between two frames
BankWarten ==
    /\ pc[1] = "schleife"
    /\ jetzt < Zeit0 + MaxWarten
    /\ jetzt' = jetzt + 1
    /\ UNCHANGED <<sitzung, einstellungen, lokal, stimmen, stopp_ausstehend,
                   beobachtung>>

NextDebounce ==
    \/ BankFrame
    \/ BankSprechen
    \/ BankGefahren
    \/ BankWarten

SpecDebounce == InitDebounce /\ [][NextDebounce]_vars

\* ---- the zone of a box
ZonenRand == 5        \* centres tried on either side of a third of the width

\* the widths the selectbox "Breite" offers
Breiten == {320, 480, 640, 800, 1024}

\* centres at the edges of the frame and around its thirds
Mitten(breite) ==
    {0, breite - 1}
        \cup ((breite \div 3 - ZonenRand)..(breite \div 3 + ZonenRand))
        \cup (((2 * breite) \div 3 - ZonenRand)
                  ..((2 * breite) \div 3 + ZonenRand))

\* lines 662-668 for the first box of a frame of some width
ZoneBestimmen ==
    /\ detektion = <<>>
    /\ \E breite \in Breiten :
        \E mitte_x \in Mitten(breite) :
            detektion' = <<[breite |-> breite, mitte_x |-> mitte_x,
                            position |-> Position(mitte_x, breite)]>>
    /\ UNCHANGED <<sitzung, einstellungen, lokal, stimmen, jetzt,
                   stopp_ausstehend, aufgezeichnet, gesprochen>>

SpecZonen == InitBoxen /\ [][ZoneBestimmen]_vars

\* ---- the distance of a box
MaxPixelBreite == 8   \* widest box the bench measures, in pixels

\* the classes the size table knows, and one the detector knows besides
MessKlassen == DOMAIN REALE_OBJEKT_GROESSEN \cup {"dog"}

\* lines 644-720 for the first box of a frame, of some class and some width
\* after "map(int, box.xyxy[0])"; berechne_entfernung is also called by
\* itself on the class and the width.  An exception of the pass ends the
\* thread.
BoxMessen ==
    /\ pc[1] = "schleife"
    /\ detektion = <<>>
    /\ \E klasse \in MessKlassen, box_breite \in 0..MaxPixelBreite :
        LET box == Rechteck(klasse, 300, 100, 300 + box_breite, 300, 0)
            z == VerarbeiteBox(box, jetzt,
                     [verlaeufe |-> objekt_verlaeufe,
                      meldungen |-> warnungs_meldungen[1],
                      rot |-> rote_ampel_gefunden[1],
                      warnungen |-> warnungen_gesamt,
                      erkannte |-> 0, farben |-> <<>>, fehler |-> ""])
        IN  /\ objekt_verlaeufe' = z.verlaeufe
            /\ warnungen_gesamt' = z.warnungen
            /\ warnungs_meldungen' = [warnungs_meldungen EXCEPT ![1] = z.meldungen]
            /\ rote_ampel_gefunden' = [rote_ampel_gefunden EXCEPT ![1] = z.rot]
            /\ IF z.fehler # ""
               THEN Absturz(1, z.fehler)
               ELSE UNCHANGED <<pc, fehler>>
            /\ detektion' =
                   <<[klasse |-> klasse, box_breite |-> box_breite,
                      behalten |-> z.erkannte > 0,
                      entfernung |-> berechne_entfernung(box_breite, klasse)]>>
    /\ UNCHANGED <<system_laeuft, letzte_sprach_warnung, gefahren_punkte,
                   objekte_gesamt, frames_verarbeitet, einstellungen, stimmen,
                   jetzt, stopp_ausstehend, kamera, frame_nummer,
                   breite_gebunden, aufgezeichnet, gesprochen>>

SpecEntfernung == InitBoxen /\ [][BoxMessen]_vars

\* ---- the classes of the detector
MaxKlassenBoxen == 2  \* boxes the bench processes

\* class names the detector may report: the important ones, two the size
\* table knows besides, and one nothing knows
KlassenDesDetektors == WICHTIGE_OBJEKTE \cup {"pedestrian", "bike", "dog"}

\* a box 120 pixels wide in each third of the frame, for every class
KlassenKandidaten ==
    {Rechteck(klasse, x1, 100, x1 + 120, 300, 0) :
        klasse \in KlassenDesDetektors, x1 \in {40, 260, 480}}

\* one pass of "for box in ergebnisse.boxes" for a box of any class; the
\* locals of the pass are noted in detektion
KlasseVerarbeiten ==
    /\ Len(detektion) < MaxKlassenBoxen
    /\ \E box \in KlassenKandidaten :
        LET z0 == [verlaeufe |-> objekt_verlaeufe,
                   meldungen |-> warnungs_meldungen[1],
                   rot |-> rote_ampel_gefunden[1],
                   warnungen |-> warnungen_gesamt,
                   erkannte |-> objekte_gesamt, farben |-> <<>>,
                   fehler |-> ""]
            z == VerarbeiteBox(box, jetzt, z0)
        IN  /\ objekt_verlaeufe' = z.verlaeufe
            /\ warnungen_gesamt' = z.warnungen
            /\ objekte_gesamt' = z.erkannte
            /\ warnungs_meldungen' = [warnungs_meldungen EXCEPT ![1] = z.meldungen]
            /\ rote_ampel_gefunden' = [rote_ampel_gefunden EXCEPT ![1] = z.rot]
            /\ detektion' = Append(detektion,
                   [box |-> box, zeit |-> jetzt,
                    behalten |-> z.erkannte > z0.erkannte,
                    verlaeufe |-> z.verlaeufe,
                    meldungen |-> SubSeq(z.meldungen, Len(z0.meldungen) + 1,
                                         Len(z.meldungen)),
                    warnungen |-> z.warnungen - z0.warnungen,
                    farben |-> z.farben])
    /\ UNCHANGED <<system_laeuft, letzte_sprach_warnung, gefahren_punkte,
                   frames_verarbeitet, einstellungen, stimmen, jetzt,
                   stopp_ausstehend, pc, kamera, frame_nummer,
                   breite_gebunden, fehler, aufgezeichnet, gesprochen>>

SpecKlassen == InitBoxen /\ [][KlasseVerarbeiten]_vars

\* ---- the reset button and the hazard step
\* lines 813-824, statement by statement, for the frame loop 1 is in: the
\* point is appended to the list st.session_state holds
GefahrenPunktAnhaengen ==
    /\ pc[1] = "gefahren"
    /\ IF ~karte_anzeigen
       THEN /\ Absturz(1, "NameError auto_markierungen")
            /\ UNCHANGED <<gefahren_punkte, frames_verarbeitet, aufgezeichnet>>
       ELSE IF auto_markierungen /\ karte_anzeigen
                  /\ (rote_ampel_gefunden[1] \/ warnungs_meldungen[1] # <<>>)
       THEN LET punkt ==
                    [label |-> IF rote_ampel_gefunden[1]
                               THEN "Rote Ampel" ELSE "Gefahrenzone",
                     ts |-> jetzt,
                     details |-> SubSeq(warnungs_meldungen[1], 1,
                         IF Len(warnungs_meldungen[1]) < 2
                         THEN Len(warnungs_meldungen[1]) ELSE 2)]
            IN  /\ gefahren_punkte' = Append(gefahren_punkte, punkt)
                /\ aufgezeichnet' = Append(aufgezeichnet, punkt)
                /\ pc' = [pc EXCEPT ![1] = "laenge"]
                /\ UNCHANGED <<fehler, frames_verarbeitet>>
       ELSE /\ frames_verarbeitet' = frame_nummer[1]
            /\ pc' = [pc EXCEPT ![1] = "schleife"]
            /\ UNCHANGED <<gefahren_punkte, aufgezeichnet, fehler>>
    /\ UNCHANGED <<system_laeuft, letzte_sprach_warnung, objekt_verlaeufe,
                   warnungen_gesamt, objekte_gesamt, einstellungen, stimmen,
                   jetzt, stopp_ausstehend, kamera, frame_nummer,
                   breite_gebunden, warnungs_meldungen, rote_ampel_gefunden,
                   gesprochen, detektion>>

\* line 827: "if len(st.session_state.gefahren_punkte) > 100"; if not, the
\* rest of the iteration (lines 830-866)
LaengePruefen ==
    /\ pc[1] = "laenge"
    /\ IF Len(gefahren_punkte) > GefahrenPunkteMax
       THEN /\ pc' = [pc EXCEPT ![1] = "schnitt"]
            /\ UNCHANGED frames_verarbeitet
       ELSE /\ pc' = [pc EXCEPT ![1] = "schleife"]
            /\ frames_verarbeitet' = frame_nummer[1]
    /\ UNCHANGED <<system_laeuft, letzte_sprach_warnung, gefahren_punkte,
                   objekt_verlaeufe, warnungen_gesamt, objekte_gesamt,
                   einstellungen, stimmen, jetzt, stopp_ausstehend, kamera,
                   frame_nummer, breite_gebunden, warnungs_meldungen,
                   rote_ampel_gefunden, fehler, beobachtung>>

\* line 828, right-hand side: st.session_state.gefahren_punkte[-100:] is
\* read and sliced; the slice is a value of the thread, kept in detektion
SchnittLesen ==
    /\ pc[1] = "schnitt"
    /\ detektion' =
           <<IF Len(gefahren_punkte) > GefahrenPunkteMax
             THEN SubSeq(gefahren_punkte,
                         Len(gefahren_punkte) - GefahrenPunkteMax + 1,
                         Len(gefahren_punkte))
             ELSE gefahren_punkte>>
    /\ pc' = [pc EXCEPT ![1] = "zuweisen"]
    /\ UNCHANGED <<sitzung, einstellungen, stimmen, jetzt, stopp_ausstehend,
                   kamera, frame_nummer, breite_gebunden, warnungs_meldungen,
                   rote_ampel_gefunden, fehler, aufgezeichnet, gesprochen>>

\* line 828, the assignment: the slice becomes the hazard log; then the rest
\* of the iteration (lines 830-866)
SchnittZuweisen ==
    /\ pc[1] = "zuweisen"
    /\ gefahren_punkte' = detektion[1]
    /\ detektion' = <<>>
    /\ frames_verarbeitet' = frame_nummer[1]
    /\ pc' = [pc EXCEPT ![1] = "schleife"]
    /\ UNCHANGED <<system_laeuft, letzte_sprach_warnung, objekt_verlaeufe,
                   warnungen_gesamt, objekte_gesamt, einstellungen, stimmen,
                   jetzt, stopp_ausstehend, kamera, frame_nummer,
                   breite_gebunden, warnungs_meldungen, rote_ampel_gefunden,
                   fehler, aufgezeichnet, gesprochen>>

\* button "Alle Daten zuruecksetzen" and the rest of that script run, while
\* loop 1 is running; the points noted are those recorded since
BankZuruecksetzen ==
    /\ gefahren_punkte' = <<>>
    /\ objekt_verlaeufe' = <<>>
    /\ warnungen_gesamt' = 0
    /\ UNCHANGED system_laeuft
    /\ HauptverarbeitungStarten
    /\ aufgezeichnet' = <<>>
    /\ UNCHANGED <<letzte_sprach_warnung, objekte_gesamt, frames_verarbeitet,
                   einstellungen, stimmen, jetzt, stopp_ausstehend, kamera,
                   frame_nummer, breite_gebunden, warnungs_meldungen,
                   rote_ampel_gefunden, fehler, gesprochen, detektion>>

NextReset ==
    \/ BankFrame
    \/ BankSprechen
    \/ GefahrenPunktAnhaengen
    \/ LaengePruefen
    \/ SchnittLesen
    \/ SchnittZuweisen
    \/ BankZuruecksetzen
    \/ BankWarten

SpecReset == InitGefahrenLog /\ [][NextReset]_vars

\* ================================================================ claims
SummeImEngine ==
    LET RECURSIVE Summe(_)
        Summe(S) == IF S = {} THEN 0
                    ELSE LET s == CHOOSE x \in S : TRUE
                         IN  imEngine[s] + Summe(S \ {s})
    IN  Summe(Instanzen)

\* C1: at most one frame loop is inside its while loop at any moment.
C1_EineFrameSchleife ==
    Cardinality({i \in Loops : pc[i] \in ImLoop}) <= 1

\* C2: whenever the frame loop's call of spreche_asynchron starts a
\* vocalization, at least the cooldown has passed since the shared timestamp
\* letzte_sprach_warnung, which the previous such call set.
C2_SprachAbstand ==
    [][\A i \in Loops :
          (pc[i] = "sprechen" /\ pc'[i] = "gefahren"
           /\ wartend'[i] = wartend[i] + 1)
              => jetzt - letzte_sprach_warnung >= Cooldown]_vars

\* C3: at most one call into the speech engine is in progress at any time,
\* over the vocalization threads of the frame loops and of TESTWARNUNG.
C3_EinAufrufImEngine == SummeImEngine <= 1

\* C4: the frame loop never waits for a vocalization.  Handing over an alert
\* leaves every lock as it was, and whatever is pending or speaking, a loop
\* that is about to speak or to log can take its step, and a loop at the
\* head of a running session can take the next frame.
C4_SchleifeWartetNicht ==
    /\ [](\A i \in Loops :
            /\ pc[i] \in {"sprechen", "gefahren"} => ENABLED LoopSchritt(i)
            /\ (pc[i] = "schleife" /\ system_laeuft
                /\ GeleseneFrames < MaxFrames)
                   => ENABLED (SchleifenKopf(i)
                               /\ frame_nummer'[i] = frame_nummer[i] + 1))
    /\ [][\A i \in Loops :
            (pc[i] = "sprechen" /\ pc'[i] # "sprechen")
                => (imEngine' = imEngine /\ pc'[i] = "gefahren")]_vars

\* C4 witness: a loop has read its second frame while the alert of its
\* first frame is still waiting or being spoken.
C4_Zeuge ==
    \E i \in Loops :
        /\ wartend[i] + imEngine[i] > 0
        /\ frame_nummer[i] = 2
        /\ pc[i] \in ImLoop

\* C5: a frame that was read and is not sampled for detection is annotated
\* and rendered, and the loop goes on: no loop has died on such a frame.
C5_FrameOhneAnalyseLaeuftWeiter ==
    \A i \in Loops :
        pc[i] = "abgestuerzt"
            => (frame_nummer[i] % frame_ueberspringen = 0 /\ modell_geladen)

\* C6: a loop that was running when SYSTEM STOPPEN was pressed leaves its
\* while loop the next time it evaluates the loop condition.
C6_StoppWirkt ==
    [][\A i \in Loops :
          (i \in stopp_ausstehend /\ pc[i] = "schleife" /\ pc'[i] # "schleife")
              => pc'[i] = "beendet"]_vars

\* C7: when the video source of a start cannot be opened, the session does
\* not count as running.
C7_OhneKameraGestoppt ==
    \A i \in Loops : pc[i] = "kamera_fehler" => ~system_laeuft

\* C8: without a detector model no frame loop reads frames.
C8_OhneModellKeinFrame ==
    ~modell_geladen => \A i \in Loops : frame_nummer[i] = 0

\* C9: no error ends a frame loop.
C9_KeinFehlerBeendetSchleife ==
    \A i \in Loops : pc[i] # "abgestuerzt"

\* C10: an iteration whose frame read fails changes neither the run flag nor
\* the frame counter, the track histories, the hazard log, the warnings
\* counter or the last-spoken timestamp, and leads back to the loop head.
C10_LesefehlerTransient ==
    [][\A i \in Loops :
          /\ (pc[i] = "schleife" /\ pc'[i] = "backoff")
                => UNCHANGED <<system_laeuft, frame_nummer, objekt_verlaeufe,
                               gefahren_punkte, warnungen_gesamt,
                               letzte_sprach_warnung, kamera>>
          /\ (pc[i] = "backoff" /\ pc'[i] # "backoff")
                => /\ pc'[i] = "schleife"
                   /\ UNCHANGED <<system_laeuft, frame_nummer,
                                  objekt_verlaeufe, gefahren_punkte,
                                  warnungen_gesamt, letzte_sprach_warnung,
                                  kamera>>]_vars

\* C10 witness: a loop that has processed a frame sits in the backoff of a
\* failed read, the session running and the frame's data in place.
C10_Zeuge ==
    \E i \in Loops :
        /\ pc[i] = "backoff"
        /\ system_laeuft
        /\ frame_nummer[i] >= 1
        /\ frames_verarbeitet >= 1
        /\ objekt_verlaeufe # <<>>

C12_VerlaufBegrenzt ==
    /\ [](\A k \in DOMAIN objekt_verlaeufe :
              Len(objekt_verlaeufe[k]) <= VerlaufMax)
    /\ [][\A k \in DOMAIN objekt_verlaeufe :
             (Len(objekt_verlaeufe[k]) = VerlaufMax
              /\ objekt_verlaeufe'[k] # objekt_verlaeufe[k])
                 => LET box == detektion'[Len(detektion')].box
                    IN  objekt_verlaeufe'[k] =
                            Append(Tail(objekt_verlaeufe[k]),
                                   [zeit |-> jetzt,
                                    mitte |-> <<(box.x1 + box.x2) \div 2,
                                                (box.y1 + box.y2) \div 2>>])]_vars

\* C12 witness: a full track that has lost at least two of its oldest samples
C12_Zeuge ==
    \E k \in DOMAIN objekt_verlaeufe :
        /\ Len(objekt_verlaeufe[k]) = VerlaufMax
        /\ objekt_verlaeufe[k][1].zeit >= Zeit0 - VerlaufMax + 2
        /\ objekt_verlaeufe[k][VerlaufMax].zeit >= Zeit0

\* what a noted detection was: its track key, its speed warning, its
\* estimated distance, whether it is a traffic light showing red
SchluesselVon(d) ==
    <<d.box.klasse, Position((d.box.x1 + d.box.x2) \div 2, bild_breite)>>
SchnellVon(d) == GeschwindigkeitWarnung(d.verlaeufe[SchluesselVon(d)])
EntfernungVon(d) == berechne_entfernung(d.box.x2 - d.box.x1, d.box.klasse)
RoteAmpelVon(d) ==
    d.box.klasse = "traffic light" /\ d.box.rot_anteil > RotSchwelle
Detektionen == {detektion[k] : k \in DOMAIN detektion}
Behaltene == {d \in Detektionen : d.behalten}

\* C13: a traffic light whose crop shows red adds exactly one message to the
\* frame, the stop message, whatever its distance and its speed.
C13_RoteAmpelNurStopp ==
    \A d \in Behaltene :
        RoteAmpelVon(d)
            => /\ Len(d.meldungen) = 1
               /\ d.meldungen[1].art = "ROTE AMPEL"

\* C13 witness: a red traffic light closer than gefahr_abstand and moving
\* fast was processed.
C13_Zeuge ==
    \E d \in Behaltene :
        /\ RoteAmpelVon(d)
        /\ EntfernungVon(d) < gefahr_abstand
        /\ SchnellVon(d)
        /\ Len(d.meldungen) = 1

\* C14: every kept detection that is not a red traffic light and is closer
\* than gefahr_abstand adds a Danger message, in the fast wording exactly
\* when its speed warning holds.
C14_NahGibtGefahrMeldung ==
    \A d \in Behaltene :
        (~RoteAmpelVon(d) /\ EntfernungVon(d) # None
         /\ EntfernungVon(d) < gefahr_abstand)
            => /\ Len(d.meldungen) = 1
               /\ d.meldungen[1].art =
                      (IF SchnellVon(d) THEN "DRINGEND" ELSE "ACHTUNG")

\* C15: every kept detection that is not a red traffic light, is not closer
\* than gefahr_abstand and has its speed warning adds exactly one message,
\* of the fast-only wording, and counts one warning.
C15_SchnellGibtHinweis ==
    \A d \in Behaltene :
        (~RoteAmpelVon(d) /\ ~(EntfernungVon(d) < gefahr_abstand)
         /\ SchnellVon(d))
            => /\ Len(d.meldungen) = 1
               /\ d.meldungen[1].art = "HINWEIS"
               /\ d.warnungen = 1

\* C16: the box of a kept detection is green exactly when none of red light,
\* distance below gefahr_abstand and speed warning holds for it.
C16_GruenNurOhneGefahr ==
    \A d \in Behaltene :
        (d.farben = <<"gruen">>)
            <=> ~(\/ RoteAmpelVon(d)
                  \/ EntfernungVon(d) < gefahr_abstand
                  \/ SchnellVon(d))

\* C17: for a frame with a message and audio enabled, the alert is withheld
\* when jetzt - letzte_sprach_warnung is below the cooldown and handed over
\* otherwise, the difference equal to the cooldown included; handing over
\* speaks one text and sets letzte_sprach_warnung to jetzt, and nothing else
\* speaks or moves the timestamp.
C17_DebounceEntscheidung ==
    [][/\ (pc[1] = "schleife" /\ pc'[1] \in {"sprechen", "gefahren"}
           /\ audio_aktiv /\ warnungs_meldungen'[1] # <<>>)
              => (pc'[1] = "sprechen"
                     <=> jetzt - letzte_sprach_warnung >= Cooldown)
       /\ (pc[1] = "sprechen" /\ pc'[1] = "gefahren")
              => /\ Len(gesprochen') = Len(gesprochen) + 1
                 /\ letzte_sprach_warnung' = jetzt
       /\ pc[1] # "sprechen"
              => /\ gesprochen' = gesprochen
                 /\ letzte_sprach_warnung' = letzte_sprach_warnung]_vars

\* C18: every text handed over is the red-light sentence if the frame's
\* messages hold a stop message at any place, and else the first of the
\* frame's messages.
C18_RotZuerstSonstErste ==
    \A k \in DOMAIN gesprochen :
        LET g == gesprochen[k]
        IN  IF \E n \in DOMAIN g.meldungen : g.meldungen[n].art = "ROTE AMPEL"
            THEN g.text = "ROT"
            ELSE g.text = g.meldungen[1].art

\* C18 witness: spoken were the red-light sentence for a frame whose first
\* message was another one, and the first of two different messages.
C18_Zeuge ==
    /\ \E k \in DOMAIN gesprochen :
          /\ gesprochen[k].text = "ROT"
          /\ gesprochen[k].meldungen[1].art # "ROTE AMPEL"
    /\ \E k \in DOMAIN gesprochen :
          /\ gesprochen[k].text = "HINWEIS"
          /\ Len(gesprochen[k].meldungen) = 2
          /\ gesprochen[k].meldungen[2].art = "DRINGEND"

\* C19: no frame has two texts handed over; only the hazard step of a frame
\* appends to the hazard log, one point at most, and it appends exactly when
\* auto-marking and the map are enabled and the frame has a message or a
\* red light.
C19_EinAlarmEinPunktJeFrame ==
    /\ [](\A j, k \in DOMAIN gesprochen :
              gesprochen[j].frame = gesprochen[k].frame => j = k)
    /\ [][LET angehaengt == aufgezeichnet' # aufgezeichnet
          IN  /\ angehaengt
                  => /\ pc[1] = "gefahren"
                     /\ Len(aufgezeichnet') = Len(aufgezeichnet) + 1
                     /\ gefahren_punkte' =
                            Append(gefahren_punkte,
                                   aufgezeichnet'[Len(aufgezeichnet')])
              /\ ~angehaengt => gefahren_punkte' = gefahren_punkte
              /\ (pc[1] = "gefahren" /\ pc'[1] # "gefahren")
                  => (angehaengt
                        <=> /\ auto_markierungen /\ karte_anzeigen
                            /\ (rote_ampel_gefunden[1]
                                \/ warnungs_meldungen[1] # <<>>))]_vars

\* C19 witness: a frame with two messages had one text handed over and one
\* point appended, with both messages as its details.
C19_Zeuge ==
    \E k \in DOMAIN gesprochen, n \in DOMAIN aufgezeichnet :
        /\ Len(gesprochen[k].meldungen) = 2
        /\ aufgezeichnet[n].details = gesprochen[k].meldungen
        /\ aufgezeichnet[n].ts = gesprochen[k].zeit
        /\ Len(gefahren_punkte) = Len(aufgezeichnet)
        /\ pc[1] = "schleife"

\* C20: the zone of a centre x in a frame of width w is Left exactly when
\* x < w/3, Right exactly when x > 2w/3, and Center otherwise.
C20_ZonenDrittel ==
    \A k \in DOMAIN detektion :
        LET d == detektion[k]
        IN  d.position =
                (IF 3 * d.mitte_x < d.breite THEN "Left"
                 ELSE IF 3 * d.mitte_x > 2 * d.breite THEN "Right"
                 ELSE "Center")

\* whether the speed warning of a noted detection was set, read off what the
\* detection left behind: the fast wording of its message, or the colour of
\* a box that is not in the danger colour
SchnellGemeldet(d) ==
    \/ d.farben = <<"orange">>
    \/ \E n \in DOMAIN d.meldungen : d.meldungen[n].art \in {"DRINGEND", "HINWEIS"}

\* the detections whose speed warning shows: all but the traffic lights
\* closer than gefahr_abstand, which get the danger colour and no message
SchnellSichtbar ==
    {d \in Behaltene :
        d.box.klasse # "traffic light" \/ ~(EntfernungVon(d) < gefahr_abstand)}

\* C21: the newest sample of a detection's track is the detection itself.  A
\* track of one sample gives no speed warning; a track of two or more whose
\* newest sample is later than its oldest gives the speed warning exactly
\* when the distance between the oldest and the newest centre, divided by
\* the time between them, exceeds geschwindigkeit_grenze.
C21_GeschwindigkeitAeltesteNeueste ==
    \A d \in Behaltene :
        LET verlauf == d.verlaeufe[SchluesselVon(d)]
            aeltester == verlauf[1]
            neuester == verlauf[Len(verlauf)]
            dt == neuester.zeit - aeltester.zeit
            dx == neuester.mitte[1] - aeltester.mitte[1]
            dy == neuester.mitte[2] - aeltester.mitte[2]
        IN  /\ neuester.zeit = d.zeit
            /\ neuester.mitte = <<(d.box.x1 + d.box.x2) \div 2,
                                  (d.box.y1 + d.box.y2) \div 2>>
            /\ d \in SchnellSichtbar =>
                /\ Len(verlauf) < 2 => ~SchnellGemeldet(d)
                /\ (Len(verlauf) >= 2 /\ dt > 0) =>
                      (SchnellGemeldet(d)
                          <=> dx * dx + dy * dy >
                                  (geschwindigkeit_grenze * dt)
                                      * (geschwindigkeit_grenze * dt))

\* C21 witness: a first detection of a track without a speed warning, a
\* detection with one, and a detection without one on a track of three or
\* more samples whose last two centres are 300 pixels and a second apart.
C21_Zeuge ==
    \E d1, d2, d3 \in SchnellSichtbar :
        /\ Len(d1.verlaeufe[SchluesselVon(d1)]) = 1
        /\ ~SchnellGemeldet(d1)
        /\ Len(d2.verlaeufe[SchluesselVon(d2)]) >= 2
        /\ SchnellGemeldet(d2)
        /\ LET verlauf == d3.verlaeufe[SchluesselVon(d3)]
               n == Len(verlauf)
           IN  /\ n >= 3
               /\ ~SchnellGemeldet(d3)
               /\ verlauf[n].zeit = verlauf[n - 1].zeit + 1
               /\ verlauf[n].mitte[2] - verlauf[n - 1].mitte[2] \in {300, -300}

\* C22: estimating a distance never fails.  For a class without a real width
\* the estimate is None; for a box width of 0 it is the estimate for a width
\* of 1; and no box pass ends the frame loop.
C22_EntfernungScheitertNie ==
    /\ \A k \in DOMAIN detektion :
          LET d == detektion[k]
          IN  /\ d.entfernung # ZeroDivision
              /\ d.klasse \notin DOMAIN REALE_OBJEKT_GROESSEN
                    => d.entfernung = None
              /\ (d.klasse \in DOMAIN REALE_OBJEKT_GROESSEN /\ d.box_breite <= 0)
                    => d.entfernung = berechne_entfernung(1, d.klasse)
    /\ pc[1] # "abgestuerzt"

\* C23: in a session whose speech engine failed to initialise no
\* vocalization thread exists and no call is inside the engine, ever; a loop
\* that is about to speak or to log can take its step, and its speaking
\* step sets the timestamp and goes on to the hazard step as it does with a
\* working engine, changing nothing else.
C23_OhneEngineStill ==
    /\ [](~engine_ok =>
            /\ \A s \in Instanzen : wartend[s] = 0 /\ imEngine[s] = 0
            /\ \A i \in Loops :
                  pc[i] \in {"sprechen", "gefahren"} => ENABLED LoopSchritt(i))
    /\ [][~engine_ok =>
            \A i \in Loops :
                (pc[i] = "sprechen" /\ pc'[i] # "sprechen")
                    => /\ pc'[i] = "gefahren"
                       /\ letzte_sprach_warnung' = jetzt
                       /\ UNCHANGED <<system_laeuft, gefahren_punkte,
                                      objekt_verlaeufe, warnungen_gesamt,
                                      objekte_gesamt, frames_verarbeitet,
                                      stimmen, kamera, frame_nummer,
                                      warnungs_meldungen, rote_ampel_gefunden,
                                      fehler>>]_vars

\* C23 witness: without an engine and with audio enabled, a loop has spoken
\* for a frame (the timestamp was set), has logged the frame's hazard point
\* and finished the frame, and TESTWARNUNG may be pressed.
C23_Zeuge ==
    /\ ~engine_ok
    /\ audio_aktiv
    /\ letzte_sprach_warnung >= Zeit0
    /\ gefahren_punkte # <<>>
    /\ frames_verarbeitet >= 1
    /\ \E i \in Loops : pc[i] = "schleife" /\ frame_nummer[i] >= 1
    /\ \A s \in Instanzen : wartend[s] = 0 /\ imEngine[s] = 0

\* C24: every step of a frame loop that sets letzte_sprach_warnung starts
\* exactly one vocalization thread, of that loop's speaker, and no other
\* step changes the timestamp.
C24_JedeAnnahmeSprichtEinmal ==
    [][/\ \A i \in Loops :
            (pc[i] = "sprechen" /\ pc'[i] # "sprechen")
                => /\ letzte_sprach_warnung' = jetzt
                   /\ wartend' = [wartend EXCEPT ![i] = @ + 1]
       /\ letzte_sprach_warnung' # letzte_sprach_warnung
            => \E i \in Loops :
                  /\ pc[i] = "sprechen" /\ pc'[i] # "sprechen"
                  /\ wartend'[i] = wartend[i] + 1]_vars

\* C24, amended: in a session whose speech engine initialised, every step
\* of a frame loop that sets letzte_sprach_warnung starts exactly one
\* vocalization thread, of that loop's speaker; and in any session only
\* such a step of a frame loop changes the timestamp.
C24_MitEngineJedeAnnahmeSprichtEinmal ==
    [][/\ \A i \in Loops :
            (pc[i] = "sprechen" /\ pc'[i] # "sprechen")
                => /\ letzte_sprach_warnung' = jetzt
                   /\ engine_ok => wartend' = [wartend EXCEPT ![i] = @ + 1]
       /\ letzte_sprach_warnung' # letzte_sprach_warnung
            => \E i \in Loops :
                  /\ pc[i] = "sprechen" /\ pc'[i] # "sprechen"
                  /\ engine_ok => wartend'[i] = wartend[i] + 1]_vars

\* C24 witness: with a working engine a loop has just handed over the alert
\* of its frame; the timestamp is set and one vocalization is pending.
C24_Zeuge ==
    \E i \in Loops :
        /\ engine_ok
        /\ pc[i] = "gefahren"
        /\ warnungs_meldungen[i] # <<>>
        /\ letzte_sprach_warnung = jetzt
        /\ wartend[i] = 1
        /\ imEngine[i] = 0

\* the messages the noted detections appended, over all frames
MeldungenAngehaengt ==
    LET RECURSIVE Summe(_)
        Summe(k) == IF k = 0 THEN 0
                    ELSE Len(detektion[k].meldungen) + Summe(k - 1)
    IN  Summe(Len(detektion))

\* C25: warnungen_gesamt is the number of messages appended to
\* warnungs_meldungen since the session state was last cleared: every
\* detection raises it by the number of messages it appended, the stop
\* message of a red traffic light included.
C25_ZaehlerZaehltJedeMeldung ==
    /\ warnungen_gesamt = MeldungenAngehaengt
    /\ \A d \in Detektionen : d.warnungen = Len(d.meldungen)

\* the eight classes the claim calls important
AchtKlassen ==
    {"person", "bicycle", "car", "motorcycle", "bus", "truck",
     "traffic light", "stop sign"}

\* C26: only a detection of one of the eight important classes (person,
\* bicycle, car, motorcycle, bus, truck, traffic light, stop sign) has an
\* effect: the pass of a box of another class leaves tracks, messages, red
\* flag, warnings counter and object count as they were, and every track key
\* is an important class with one of the three zones, 24 keys at most.
C26_NurWichtigeObjekteWirken ==
    /\ [](/\ DOMAIN objekt_verlaeufe
                \subseteq AchtKlassen \X {"Left", "Center", "Right"}
          /\ Cardinality(DOMAIN objekt_verlaeufe) <= 24)
    /\ [][detektion' # detektion =>
            LET d == detektion'[Len(detektion')]
            IN  /\ d.behalten <=> d.box.klasse \in AchtKlassen
                /\ d.box.klasse \notin AchtKlassen
                      => /\ UNCHANGED <<objekt_verlaeufe, warnungs_meldungen,
                                        rote_ampel_gefunden, warnungen_gesamt,
                                        objekte_gesamt, gefahren_punkte>>
                         /\ d.meldungen = <<>>
                         /\ d.farben = <<>>]_vars

\* C26 witness: after a kept detection in the left third opened a track, a
\* "pedestrian" (a class with a real width that is not important) was
\* reported in the right third and left no trace.
C26_Zeuge ==
    /\ Len(detektion) = 2
    /\ detektion[1].behalten
    /\ SchluesselVon(detektion[1])[2] = "Left"
    /\ detektion[2].box.klasse = "pedestrian"
    /\ SchluesselVon(detektion[2])[2] = "Right"
    /\ ~detektion[2].behalten
    /\ objekt_verlaeufe = detektion[1].verlaeufe
    /\ objekte_gesamt = 1

\* C27: a reset empties the hazard log, the tracks and the warnings counter
\* and leaves the run flag and letzte_sprach_warnung as they were; with a
\* frame loop running, every point of the hazard log was recorded since the
\* last reset.
C27_ZuruecksetzenLeertEndgueltig ==
    /\ [][pc'[2] # pc[2] =>
            /\ gefahren_punkte' = <<>>
            /\ objekt_verlaeufe' = <<>>
            /\ warnungen_gesamt' = 0
            /\ UNCHANGED <<system_laeuft, letzte_sprach_warnung>>]_vars
    /\ [](\A k \in DOMAIN gefahren_punkte :
              \E n \in DOMAIN aufgezeichnet :
                  gefahren_punkte[k] = aufgezeichnet[n])

\* C28: no frame loop that has ended, by the run flag or by an error, still
\* holds the camera it opened: kamera.release() was called.
C28_KameraImmerFreigegeben ==
    \A i \in Loops :
        pc[i] \in {"beendet", "abgestuerzt", "abgebrochen"} => kamera[i] # "offen"

====
